---- MODULE Spec2Model ----
(***************************************************************************)
(* Model of src/ssl_utils.c (HAProxy): the certificate field extractors    *)
(* that write into a caller-owned struct buffer {area, size, data}, the    *)
(* GREASE filter, the ASN.1 generalized-time parser, the OpenSSL version   *)
(* parser, the peer-certificate and chain-root accessors, and the          *)
(* verification-error and curve tables with their lookups.                 *)
(*                                                                         *)
(* Bytes and characters are their numeric (ASCII) values; a C string or a  *)
(* byte array is a sequence of them.  A pointer that may be NULL is a      *)
(* record with an "exists" field.                                          *)
(***************************************************************************)
EXTENDS Integers, Sequences, FiniteSets, TLC

VARIABLES
    out,      \* the caller's struct buffer: [size, data, area]
    oob,      \* TRUE once a call has stored a byte at an index >= out.size
    call,     \* the last call made: [op, arg, ret]
    crt,      \* the certificate of the connection: [serial, der, notafter, subject, pkey]
    d,        \* the ASN1_GENERALIZEDTIME handed to asn1_generalizedtime_to_epoch
    version,  \* the string handed to openssl_version_parser
    ssl,      \* the SSL connection and the X509 objects it refers to:
              \* [peer, stash, chain, refs, held]
    x509_v_codes,   \* the table x509_v_codes: a sequence of [code, value, string]
    curves_list,    \* the table curves_list: [curve_id, nid, nid_val_str, name, nist]
    initcalls       \* how often each INITCALL function has run: [x509, curves]

vars == <<out, oob, call, crt, d, version, ssl, x509_v_codes, curves_list, initcalls>>

(***************************************************************************)
(* Bounds of the model.                                                    *)
(***************************************************************************)
MaxCap == 3          \* buffer capacities 0..MaxCap
MaxSerialLen == 3    \* serial numbers of 0..MaxSerialLen bytes
MaxDerLen == 3       \* DER encodings of 1..MaxDerLen bytes
MaxEntries == 2      \* distinguished names of 0..MaxEntries pool entries
MaxTimeLen == 13     \* ASN.1 time strings of up to MaxTimeLen bytes

\* The capacities of the worked example of the oneline extractor.
ExampleCaps == {21, 22}

\* size_t arithmetic is modulo 2^64; every size and length of the model is
\* far below 2^30, so a wrapped difference is as large against them as the
\* real one (the model checker's integers are 32 bits wide).
SIZE_T_MOD == 2^30

USub(a, b) == (a - b) % SIZE_T_MOD

Min(a, b) == IF a < b THEN a ELSE b

(***************************************************************************)
(* The struct buffer and memcpy into it.                                   *)
(***************************************************************************)
Zeros(n) == [i \in 1..n |-> 0]

Buffer(size, data) == [size |-> size, data |-> data, area |-> Zeros(size)]

\* memcpy(area + off, src, Len(src)): the bytes that land inside the area.
Memcpy(area, off, src) ==
    [i \in 1..Len(area) |->
        IF i > off /\ i <= off + Len(src) THEN src[i - off] ELSE area[i]]

\* Whether a store of n bytes at area + off touches an index >= size.
Overrun(size, off, n) == n > 0 /\ off + n > size

Result(ret, o, over) == [ret |-> ret, out |-> o, oob |-> over]

(***************************************************************************)
(* ssl_sock_get_serial                                                     *)
(***************************************************************************)
ssl_sock_get_serial(c, o) ==
    LET serial == c.serial            \* X509_get_serialNumber(crt)
    IN  IF ~serial.exists THEN Result(0, o, FALSE)
        ELSE IF o.size < Len(serial.data) THEN Result(-1, o, FALSE)
        ELSE Result(1,
                    [o EXCEPT !.area = Memcpy(@, 0, serial.data),
                              !.data = Len(serial.data)],
                    Overrun(o.size, 0, Len(serial.data)))

(***************************************************************************)
(* ssl_sock_crt2der.  c.der is what i2d_X509 does for this certificate:    *)
(* len is the value of the length-probing call (<= 0 on failure), bytes    *)
(* the encoding the second call stores.                                    *)
(***************************************************************************)
ssl_sock_crt2der(c, o) ==
    LET len == c.der.len              \* i2d_X509(crt, NULL)
    IN  IF len <= 0 THEN Result(1, o, FALSE)
        ELSE IF o.size < len THEN Result(-1, o, FALSE)
        ELSE Result(1,
                    [o EXCEPT !.area = Memcpy(@, 0, c.der.bytes),
                              !.data = len],
                    Overrun(o.size, 0, len))

(***************************************************************************)
(* ssl_sock_get_time.  tm = [type, data]; the tags are OpenSSL's.          *)
(***************************************************************************)
V_ASN1_UTCTIME == 23
V_ASN1_GENERALIZEDTIME == 24

ssl_sock_get_time_nostrip(tm, o) ==
    LET n == Len(tm.data)
    IN  IF tm.type = V_ASN1_GENERALIZEDTIME THEN
            IF n < 12 THEN Result(0, o, FALSE)
            ELSE IF tm.data[1] # 50 \/ tm.data[2] # 48 THEN Result(0, o, FALSE)
            ELSE IF o.size < n - 2 THEN Result(-1, o, FALSE)
            ELSE Result(1,
                        [o EXCEPT !.area = Memcpy(@, 0, SubSeq(tm.data, 1, n - 2)),
                                  !.data = n - 2],
                        Overrun(o.size, 0, n - 2))
        ELSE IF tm.type = V_ASN1_UTCTIME THEN
            IF n < 10 THEN Result(0, o, FALSE)
            ELSE IF tm.data[1] >= 53 THEN Result(0, o, FALSE)
            ELSE IF o.size < n THEN Result(-1, o, FALSE)
            ELSE Result(1,
                        [o EXCEPT !.area = Memcpy(@, 0, tm.data),
                                  !.data = n],
                        Overrun(o.size, 0, n))
        ELSE Result(0, o, FALSE)

ssl_sock_get_time(tm, o) ==
    LET n == Len(tm.data)
    IN  IF tm.type = V_ASN1_GENERALIZEDTIME THEN
            IF n < 12 THEN Result(0, o, FALSE)
            ELSE IF tm.data[1] # 50 \/ tm.data[2] # 48 THEN Result(0, o, FALSE)
            ELSE IF o.size < n - 2 THEN Result(-1, o, FALSE)
            ELSE Result(1,
                        [o EXCEPT !.area = Memcpy(@, 0, SubSeq(tm.data, 3, n)),
                                  !.data = n - 2],
                        Overrun(o.size, 0, n - 2))
        ELSE IF tm.type = V_ASN1_UTCTIME THEN
            IF n < 10 THEN Result(0, o, FALSE)
            ELSE IF tm.data[1] >= 53 THEN Result(0, o, FALSE)
            ELSE IF o.size < n THEN Result(-1, o, FALSE)
            ELSE Result(1,
                        [o EXCEPT !.area = Memcpy(@, 0, tm.data),
                                  !.data = n],
                        Overrun(o.size, 0, n))
        ELSE Result(0, o, FALSE)

(***************************************************************************)
(* Chunk helpers of haproxy/chunk.h, which this file includes.             *)
(***************************************************************************)
ToLower(ch) == IF ch >= 65 /\ ch <= 90 THEN ch + 32 ELSE ch

\* chunk_strcasecmp(chk, str): 0 iff the chunk's bytes equal the string
\* ignoring case.
chunk_strcasecmp(chk, str) ==
    IF Len(chk) = Len(str) /\ \A i \in 1..Len(chk) : ToLower(chk[i]) = ToLower(str[i])
    THEN 0 ELSE 1

\* chunk_strcmp(chk, str): 0 iff the chunk's bytes equal the string.
chunk_strcmp(chk, str) == IF chk = str THEN 0 ELSE 1

\* chunk_printf(chk, fmt, ...), text being the formatted string: vsnprintf
\* stores at most size - 1 bytes and a NUL; a string that does not fit is
\* reported as -1 and data is left alone.
chunk_printf(chk, text) ==
    IF chk.size = 0 THEN [ret |-> 0, out |-> chk]
    ELSE LET kept == SubSeq(text, 1, Min(Len(text), chk.size - 1))
             area == Memcpy(chk.area, 0, kept \o <<0>>)
         IN  IF Len(text) >= chk.size
             THEN [ret |-> -1, out |-> [chk EXCEPT !.area = area]]
             ELSE [ret |-> Len(text),
                   out |-> [chk EXCEPT !.area = area, !.data = Len(text)]]

(***************************************************************************)
(* ssl_sock_get_dn_entry.  A X509_NAME is the sequence of its entries      *)
(* [sn, value]: sn is the string s the code compares with (the short name  *)
(* of the attribute, or its dotted OID when it has none), value the bytes  *)
(* of the entry's ASN1_STRING.                                             *)
(***************************************************************************)
RECURSIVE dn_entry_loop(_, _, _, _, _, _)
dn_entry_loop(a, entry, pos, o, i, cur) ==
    IF i >= Len(a) THEN Result(0, o, FALSE)
    ELSE LET j == IF pos < 0 THEN (Len(a) - 1) - i ELSE i
             ne == a[j + 1]                      \* X509_NAME_get_entry(a, j)
             data_len == Len(ne.value)
             cur2 == IF pos < 0 THEN cur - 1 ELSE cur + 1
         IN  IF chunk_strcasecmp(entry, ne.sn) # 0
             THEN dn_entry_loop(a, entry, pos, o, i + 1, cur)
             ELSE IF cur2 # pos
             THEN dn_entry_loop(a, entry, pos, o, i + 1, cur2)
             ELSE IF data_len > o.size THEN Result(-1, o, FALSE)
             ELSE Result(1,
                         [o EXCEPT !.area = Memcpy(@, 0, ne.value),
                                   !.data = data_len],
                         Overrun(o.size, 0, data_len))

RECURSIVE dn_entry_loop_fwd(_, _, _, _, _, _)
dn_entry_loop_fwd(a, entry, pos, o, i, cur) ==
    IF i >= Len(a) THEN Result(0, o, FALSE)
    ELSE LET ne == a[i + 1]
             data_len == Len(ne.value)
             cur2 == IF pos < 0 THEN cur - 1 ELSE cur + 1
         IN  IF chunk_strcasecmp(entry, ne.sn) # 0
             THEN dn_entry_loop_fwd(a, entry, pos, o, i + 1, cur)
             ELSE IF cur2 # pos
             THEN dn_entry_loop_fwd(a, entry, pos, o, i + 1, cur2)
             ELSE IF data_len > o.size THEN Result(-1, o, FALSE)
             ELSE Result(1,
                         [o EXCEPT !.area = Memcpy(@, 0, ne.value),
                                   !.data = data_len],
                         Overrun(o.size, 0, data_len))

ssl_sock_get_dn_entry_fwd(a, entry, pos, o) ==
    dn_entry_loop_fwd(a, entry, pos, [o EXCEPT !.data = 0], 0, 0)

ssl_sock_get_dn_entry(a, entry, pos, o) ==
    dn_entry_loop(a, entry, pos, [o EXCEPT !.data = 0], 0, 0)

(***************************************************************************)
(* ssl_sock_get_dn_formatted.  lib is what the library does during the     *)
(* call: "ok", "bio_null" (BIO_new fails) or "print_err"                   *)
(* (X509_NAME_print_ex fails).                                             *)
(***************************************************************************)
\* X509_NAME_print_ex(bio, a, 0, XN_FLAG_RFC2253): the entries last to
\* first, SN=value, separated by commas (no value of the model needs an
\* escape).
RECURSIVE X509_NAME_print_ex(_)
X509_NAME_print_ex(a) ==
    IF Len(a) = 0 THEN <<>>
    ELSE LET last == a[Len(a)]
             rest == SubSeq(a, 1, Len(a) - 1)
         IN  last.sn \o <<61>> \o last.value
             \o (IF Len(rest) = 0 THEN <<>> ELSE <<44>> \o X509_NAME_print_ex(rest))

\* BIO_read(bio, buf, size) on a memory BIO holding text: the number of
\* bytes handed over, not positive when there is none.
BIO_read(text, size) ==
    IF Len(text) = 0 THEN -1 ELSE Min(Len(text), size)

rfc2253 == <<114, 102, 99, 50, 50, 53, 51>>

ssl_sock_get_dn_formatted(a, format, lib, o) ==
    IF chunk_strcmp(format, rfc2253) # 0 THEN Result(0, o, FALSE)
    ELSE IF lib = "bio_null" THEN Result(0, o, FALSE)
    ELSE IF lib = "print_err" THEN Result(0, o, FALSE)
    ELSE LET text == X509_NAME_print_ex(a)
             data_len == BIO_read(text, o.size)
         IN  IF data_len <= 0 THEN Result(0, o, FALSE)
             ELSE Result(1,
                         [o EXCEPT !.area = Memcpy(@, 0, SubSeq(text, 1, data_len)),
                                   !.data = data_len],
                         Overrun(o.size, 0, data_len))

(***************************************************************************)
(* ssl_sock_get_dn_oneline                                                 *)
(***************************************************************************)
RECURSIVE dn_oneline_loop(_, _, _, _, _, _)
dn_oneline_loop(a, o, i, l, p, over) ==
    IF i >= Len(a) THEN Result(IF o.data = 0 THEN 0 ELSE 1, o, over)
    ELSE LET ne == a[i + 1]
             ln == Len(ne.sn)
             data_len == Len(ne.value)
             l2 == l + 1 + ln + 1 + data_len
             text == <<47>> \o ne.sn \o <<61>> \o ne.value
         IN  IF l2 > o.size THEN Result(-1, o, over)
             ELSE dn_oneline_loop(a,
                                  [o EXCEPT !.data = l2,
                                            !.area = Memcpy(@, p, text)],
                                  i + 1, l2, p + Len(text),
                                  over \/ Overrun(o.size, p, Len(text)))

RECURSIVE dn_oneline_loop_ge(_, _, _, _, _, _)
dn_oneline_loop_ge(a, o, i, l, p, over) ==
    IF i >= Len(a) THEN Result(IF o.data = 0 THEN 0 ELSE 1, o, over)
    ELSE LET ne == a[i + 1]
             l2 == l + 1 + Len(ne.sn) + 1 + Len(ne.value)
             text == <<47>> \o ne.sn \o <<61>> \o ne.value
         IN  IF l2 >= o.size THEN Result(-1, o, over)
             ELSE dn_oneline_loop_ge(a,
                                     [o EXCEPT !.data = l2,
                                               !.area = Memcpy(@, p, text)],
                                     i + 1, l2, p + Len(text),
                                     over \/ Overrun(o.size, p, Len(text)))

ssl_sock_get_dn_oneline_ge(a, o) ==
    dn_oneline_loop_ge(a, [o EXCEPT !.data = 0], 0, 0, 0, FALSE)

ssl_sock_get_dn_oneline(a, o) ==
    dn_oneline_loop(a, [o EXCEPT !.data = 0], 0, 0, 0, FALSE)

(***************************************************************************)
(* cert_get_pkey_algo.  c.pkey = [exists, base_id, bits].                  *)
(***************************************************************************)
RECURSIVE Decimal(_)
Decimal(n) ==                         \* "%d" of n >= 0
    IF n < 10 THEN <<48 + n>> ELSE Decimal(n \div 10) \o <<48 + (n % 10)>>

cert_get_pkey_algo(c, o) ==
    LET pkey == c.pkey                \* X509_get_pubkey(crt)
        bits == IF pkey.exists THEN pkey.bits ELSE 0
        sig  == IF pkey.exists /\ pkey.base_id \in {"RSA", "EC", "DSA"}
                THEN pkey.base_id ELSE "anonymous"
        family == CASE sig = "RSA" -> <<82, 83, 65>>
                    [] sig = "EC"  -> <<69, 67>>
                    [] sig = "DSA" -> <<68, 83, 65>>
                    [] OTHER       -> <<>>
        r == chunk_printf(o, family \o Decimal(bits))
    IN  IF sig = "anonymous" THEN Result(0, o, FALSE)
        ELSE IF r.ret < 0 THEN Result(0, r.out, FALSE)
        ELSE Result(1, r.out, FALSE)

(***************************************************************************)
(* exclude_tls_grease.  size and data are size_t: size - 2 and size - data *)
(* wrap.  A store past the area is recorded in the oob flag, and data      *)
(* advances as the code advances it.                                       *)
(***************************************************************************)
RECURSIVE grease_loop(_, _, _, _, _)
grease_loop(input, len, ptr, o, over) ==
    IF ~(ptr < len - 1) THEN [ptr |-> ptr, out |-> o, oob |-> over]
    ELSE IF input[ptr + 1] # input[ptr + 2] \/ (input[ptr + 1] % 16) # 10
    THEN IF o.data <= USub(o.size, 2)
         THEN grease_loop(input, len, ptr + 2,
                          [o EXCEPT !.area = Memcpy(@, o.data, SubSeq(input, ptr + 1, ptr + 2)),
                                    !.data = o.data + 2],
                          over \/ Overrun(o.size, o.data, 2))
         ELSE [ptr |-> ptr, out |-> o, oob |-> over]
    ELSE grease_loop(input, len, ptr + 2, o, over)

exclude_tls_grease(input, len, output) ==
    LET r == grease_loop(input, len, 0, output, FALSE)
        o == r.out
    IN  IF USub(o.size, o.data) > 0 /\ len - r.ptr > 0
        THEN Result(0,
                    [o EXCEPT !.area = Memcpy(@, o.data, <<input[r.ptr + 1]>>),
                              !.data = o.data + 1],
                    r.oob \/ Overrun(o.size, o.data, 1))
        ELSE Result(0, o, r.oob)

(***************************************************************************)
(* asn1_generalizedtime_to_epoch.  dd = [exists, type, data]; p is the     *)
(* offset of the read pointer in data and end the length, so that p[k] is  *)
(* data[p + k + 1].  The result is a long of 64 bits: no value of the      *)
(* model comes near its limits.  year is an unsigned long: the divisions   *)
(* are those of C as long as year - (month < 3) >= 0, which every input of *)
(* the model satisfies.                                                    *)
(***************************************************************************)
month_offset == <<0, 31, 59, 90, 120, 151, 181, 212, 243, 273, 304, 334>>

\* p[k] - '0'
Dig(data, p, k) == data[p + k + 1] - 48

\* The mutant drops the century terms of the leap-day count.
epoch_days_julian(year, month) ==
    LET lt3 == IF month < 3 THEN 1 ELSE 0
    IN  ((year - 1970) * 365)
        + ((year - lt3) \div 4)
        - ((1970 - 1) \div 4)
        + month_offset[month]

\* Days from 1970-01-01 to the first day of the month: the parenthesis of
\* the assignment to epoch.
epoch_days(year, month) ==
    LET lt3 == IF month < 3 THEN 1 ELSE 0
    IN  ((year - 1970) * 365)
        + ((year - lt3) \div 4 - (year - lt3) \div 100 + (year - lt3) \div 400)
        - ((1970 - 1) \div 4 - (1970 - 1) \div 100 + (1970 - 1) \div 400)
        + month_offset[month]

\* The label nosec: the timezone marker at p.  The mutant applies the
\* offset with the sign reversed.
epoch_nosec_flipped(data, p, end, epoch) ==
    LET off == ((10 * Dig(data, p, 1) + Dig(data, p, 2)) * 60 * 60
                + (10 * Dig(data, p, 3) + Dig(data, p, 4))) * 60
    IN  IF data[p + 1] = 90 THEN (IF end - p # 1 THEN -1 ELSE epoch)
        ELSE IF data[p + 1] = 43 THEN (IF end - p # 5 THEN -1 ELSE epoch + off)
        ELSE IF data[p + 1] = 45 THEN (IF end - p # 5 THEN -1 ELSE epoch - off)
        ELSE -1

epoch_nosec(data, p, end, epoch) ==
    IF data[p + 1] = 90 THEN                                   \* 'Z'
        IF end - p # 1 THEN -1 ELSE epoch
    ELSE IF data[p + 1] = 43 THEN                              \* '+'
        IF end - p # 5 THEN -1
        ELSE epoch - ((10 * Dig(data, p, 1) + Dig(data, p, 2)) * 60 * 60
                      + (10 * Dig(data, p, 3) + Dig(data, p, 4))) * 60
    ELSE IF data[p + 1] = 45 THEN                              \* '-'
        IF end - p # 5 THEN -1
        ELSE epoch + ((10 * Dig(data, p, 1) + Dig(data, p, 2)) * 60 * 60
                      + (10 * Dig(data, p, 3) + Dig(data, p, 4))) * 60
    ELSE -1

\* do { if (++p == end) return -1; } while (p[0] >= '0' && p[0] <= '9'):
\* the offset after the fraction, or -1.
RECURSIVE epoch_skip_fraction(_, _, _)
epoch_skip_fraction(data, p, end) ==
    IF p + 1 = end THEN -1
    ELSE IF data[p + 2] >= 48 /\ data[p + 2] <= 57
    THEN epoch_skip_fraction(data, p + 1, end)
    ELSE p + 1

asn1_generalizedtime_to_epoch(dd) ==
    IF ~dd.exists \/ dd.type # V_ASN1_GENERALIZEDTIME THEN -1
    ELSE
    LET data == dd.data
        end == Len(dd.data)
    IN
    IF end - 0 < 4 THEN -1 ELSE
    LET year == 1000 * Dig(data, 0, 0) + 100 * Dig(data, 0, 1)
                + 10 * Dig(data, 0, 2) + Dig(data, 0, 3)
    IN
    IF end - 4 < 2 THEN -1 ELSE
    LET month == 10 * Dig(data, 4, 0) + Dig(data, 4, 1)
    IN
    IF month < 1 \/ month > 12 THEN -1 ELSE
    LET epoch0 == epoch_days(year, month) * 24 * 60 * 60
    IN
    IF end - 6 < 2 THEN -1 ELSE
    LET epoch1 == epoch0 + (10 * Dig(data, 6, 0) + Dig(data, 6, 1) - 1) * 24 * 60 * 60
    IN
    IF end - 8 < 2 THEN -1 ELSE
    LET epoch2 == epoch1 + (10 * Dig(data, 8, 0) + Dig(data, 8, 1)) * 60 * 60
    IN
    IF end - 10 < 2 THEN -1 ELSE
    LET epoch3 == epoch2 + (10 * Dig(data, 10, 0) + Dig(data, 10, 1)) * 60
    IN
    IF 12 = end THEN -1 ELSE
    IF data[13] < 48 \/ data[13] > 57 THEN epoch_nosec(data, 12, end, epoch3) ELSE
    IF end - 12 < 2 THEN -1 ELSE
    LET epoch4 == epoch3 + 10 * Dig(data, 12, 0) + Dig(data, 12, 1)
    IN
    IF 14 = end THEN -1 ELSE
    IF data[15] = 46
    THEN LET p == epoch_skip_fraction(data, 14, end)
         IN  IF p = -1 THEN -1 ELSE epoch_nosec(data, p, end, epoch4)
    ELSE epoch_nosec(data, 14, end, epoch4)

(***************************************************************************)
(* openssl_version_parser.  version = [exists, str]; str is the string     *)
(* without its terminating NUL, which At reads at Len(str) + 1.  Offsets   *)
(* are indices into str.  The fields are unsigned int: UGt is the unsigned *)
(* comparison of a converted long of less than 31 bits, and a sum of       *)
(* letters enters the result only by its low eight bits.                   *)
(***************************************************************************)
At(str, i) == IF i <= Len(str) THEN str[i] ELSE 0

\* (unsigned int)v > k
UGt(v, k) == v < 0 \/ v > k

RECURSIVE strtol_space(_, _)
strtol_space(str, i) ==
    IF At(str, i) \in {32, 9, 10, 11, 12, 13} THEN strtol_space(str, i + 1) ELSE i

RECURSIVE strtol_digits(_, _, _)
strtol_digits(str, i, acc) ==
    IF At(str, i) >= 48 /\ At(str, i) <= 57
    THEN strtol_digits(str, i + 1, 10 * acc + (At(str, i) - 48))
    ELSE [val |-> acc, end |-> i]

\* strtol(str + i, &end, 10): blanks, a sign, digits; without a digit the
\* value is 0 and end is where the call started.
strtol(str, i) ==
    LET j == strtol_space(str, i)
        neg == At(str, j) = 45
        k == IF At(str, j) \in {43, 45} THEN j + 1 ELSE j
        r == strtol_digits(str, k, 0)
    IN  IF r.end = k THEN [val |-> 0, end |-> i]
        ELSE [val |-> IF neg THEN -r.val ELSE r.val, end |-> r.end]

beta == <<98, 101, 116, 97>>

\* strncmp(str + i, lit, Len(lit)) = 0
strncmp0(str, i, lit) == \A k \in 1..Len(lit) : At(str, i + k - 1) = lit[k]

\* The mutant adds the letters as they are, without clearing bit 0x20.
RECURSIVE version_patch_cased(_, _, _)
version_patch_cased(str, i, patch) ==
    IF At(str, i) = 0 THEN patch
    ELSE version_patch_cased(str, i + 1, patch + (At(str, i) - 65))

\* while (*p) { patch += (*p & ~0x20) - 'A'; p++; }
RECURSIVE version_patch(_, _, _)
version_patch(str, i, patch) ==
    IF At(str, i) = 0 THEN patch
    ELSE LET ch == At(str, i)
             cleared == IF (ch \div 32) % 2 = 1 THEN ch - 32 ELSE ch
         IN  version_patch(str, i + 1, patch + (cleared - 65))

openssl_version_parser(ver) ==
    IF ~ver.exists \/ At(ver.str, 1) = 0 THEN 0 ELSE
    LET str == ver.str
        r1 == strtol(str, 1)
        major == r1.val
    IN
    IF At(str, r1.end) # 46 \/ UGt(major, 15) THEN 0 ELSE
    LET r2 == strtol(str, r1.end + 1)
        minor == r2.val
    IN
    IF At(str, r2.end) # 46 \/ UGt(minor, 255) THEN 0 ELSE
    LET r3 == strtol(str, r2.end + 1)
        fix == r3.val
        p == r3.end
    IN
    IF UGt(fix, 255) THEN 0 ELSE
    LET r4 == strtol(str, p + 5)
        isbeta == At(str, p) = 45 /\ strncmp0(str, p + 1, beta)
        patch == IF At(str, p) = 0 \/ At(str, p) = 45 THEN 0
                 ELSE version_patch(str, p, 1)
        status == IF At(str, p) = 0 THEN 15
                  ELSE IF At(str, p) = 45 THEN (IF isbeta THEN r4.val ELSE 0)
                  ELSE 15
    IN
    IF isbeta /\ UGt(status, 14) THEN 0
    ELSE (major % 16) * 2^28 + (minor % 256) * 2^20 + (fix % 256) * 2^12
         + (patch % 256) * 2^4 + (status % 16)

(***************************************************************************)
(* ssl_sock_get_peer_certificate.  An X509 object is a number 1..MaxCerts  *)
(* and 0 is NULL.  ssl.peer is what SSL_get_peer_certificate finds,        *)
(* ssl.stash the ex_data at ssl_client_crt_ref_index, ssl.refs the         *)
(* reference count of each object, ssl.held the handles the caller of the  *)
(* function holds.  SSL_get_peer_certificate returns a new reference of    *)
(* the library's (the count is incremented), SSL_get_ex_data the stored    *)
(* pointer.  The result carries the library calls made, in order.          *)
(***************************************************************************)
MaxCerts == 2

X509_up_ref(s, cert) == [s EXCEPT !.refs[cert] = @ + 1]
X509_free(s, cert) == [s EXCEPT !.refs[cert] = @ - 1]
SSL_get_peer_certificate(s) ==
    IF s.peer = 0 THEN [cert |-> 0, ssl |-> s]
    ELSE [cert |-> s.peer, ssl |-> X509_up_ref(s, s.peer)]
SSL_get_ex_data(s) == s.stash

\* The mutant returns the stashed pointer without X509_up_ref.
ssl_sock_get_peer_certificate_borrowed(s) ==
    LET r == SSL_get_peer_certificate(s)
    IN  IF r.cert = 0
        THEN [ret |-> SSL_get_ex_data(s), ssl |-> s,
              trace |-> <<"SSL_get_peer_certificate", "SSL_get_ex_data">>]
        ELSE [ret |-> r.cert, ssl |-> r.ssl,
              trace |-> <<"SSL_get_peer_certificate">>]

ssl_sock_get_peer_certificate(s) ==
    LET r == SSL_get_peer_certificate(s)
    IN  IF r.cert = 0
        THEN LET cert == SSL_get_ex_data(s)
             IN  IF cert # 0
                 THEN [ret |-> cert, ssl |-> X509_up_ref(s, cert),
                       trace |-> <<"SSL_get_peer_certificate", "SSL_get_ex_data",
                                   "X509_up_ref">>]
                 ELSE [ret |-> 0, ssl |-> s,
                       trace |-> <<"SSL_get_peer_certificate", "SSL_get_ex_data">>]
        ELSE [ret |-> r.cert, ssl |-> r.ssl,
              trace |-> <<"SSL_get_peer_certificate">>]

(***************************************************************************)
(* ssl_sock_get_verified_chain_root.  ssl.chain = [exists, certs]: what    *)
(* SSL_get0_verified_chain returns, certs[i + 1] being sk_X509_value(chain,*)
(* i), a record whose self_issued field tells whether                      *)
(* X509_check_issued(crt, crt) is X509_V_OK.  The result is the position   *)
(* in certs of the certificate returned, 0 for NULL.                       *)
(***************************************************************************)
\* The mutant has no break: it walks to the end of the chain.
RECURSIVE chain_root_loop_nobreak(_, _, _)
chain_root_loop_nobreak(certs, i, found) ==
    IF ~(i < Len(certs)) THEN found
    ELSE chain_root_loop_nobreak(certs, i + 1, i + 1)

RECURSIVE chain_root_loop(_, _, _)
chain_root_loop(certs, i, found) ==       \* found: the local crt
    IF ~(i < Len(certs)) THEN found
    ELSE IF certs[i + 1].self_issued THEN i + 1
    ELSE chain_root_loop(certs, i + 1, i + 1)

ssl_sock_get_verified_chain_root(s) ==
    IF ~s.chain.exists THEN 0
    ELSE chain_root_loop(s.chain.certs, 0, 0)

(***************************************************************************)
(* x509_v_codes and its lookups.  A char * is [exists, str]; the entry     *)
(* { 0, NULL, NULL } that ends a table is the position after its last      *)
(* element.  An entry's value is the text of the macro's expansion, or the *)
(* macro's name when the build does not define it.                         *)
(***************************************************************************)
NullStr == [exists |-> FALSE, str |-> <<>>]
Str(text) == [exists |-> TRUE, str |-> text]

\* strcmp(a, b) == 0
strcmp0(a, b) == a = b
atoi(text) == strtol(text, 1).val

\* V(x): the macros of four lines of the table and their values in OpenSSL
\* 3.0: X509_V_OK 0, X509_V_ERR_UNSPECIFIED 1, X509_V_ERR_CERT_HAS_EXPIRED
\* 10, X509_V_ERR_EC_KEY_EXPLICIT_PARAMS 94.
X509VMacros ==
    << [name |-> <<88, 53, 48, 57, 95, 86, 95, 79, 75>>, value |-> <<48>>],
       [name |-> <<88, 53, 48, 57, 95, 86, 95, 69, 82, 82, 95, 85, 78, 83, 80, 69, 67, 73, 70, 73, 69, 68>>, value |-> <<49>>],
       [name |-> <<88, 53, 48, 57, 95, 86, 95, 69, 82, 82, 95, 67, 69, 82, 84, 95, 72, 65, 83, 95, 69, 88, 80, 73, 82, 69, 68>>, value |-> <<49, 48>>],
       [name |-> <<88, 53, 48, 57, 95, 86, 95, 69, 82, 82, 95, 69, 67, 95, 75, 69, 89, 95, 69, 88, 80, 76, 73, 67, 73, 84, 95, 80, 65, 82, 65, 77, 83>>, value |-> <<57, 52>>] >>

\* The table as compiled by a build that defines the macros of the set
\* defined.
X509VCodes(defined) ==
    [i \in 1..Len(X509VMacros) |->
        [code |-> -1,
         value |-> IF i \in defined THEN X509VMacros[i].value ELSE X509VMacros[i].name,
         string |-> X509VMacros[i].name]]

RECURSIVE x509_str_loop(_, _, _)
x509_str_loop(tab, str, i) ==
    IF i > Len(tab) THEN -1
    ELSE IF strcmp0(str, tab[i].string) THEN tab[i].code
    ELSE x509_str_loop(tab, str, i + 1)

x509_v_err_str_to_int(tab, str) == x509_str_loop(tab, str, 1)

RECURSIVE x509_int_loop(_, _, _)
x509_int_loop(tab, code, i) ==
    IF i > Len(tab) THEN NullStr
    ELSE IF tab[i].code = code THEN Str(tab[i].string)
    ELSE x509_int_loop(tab, code, i + 1)

\* The mutant searches the table for -1 as for any other code.
x509_v_err_int_to_str_any(tab, code) == x509_int_loop(tab, code, 1)

x509_v_err_int_to_str(tab, code) ==
    IF code = -1 THEN NullStr ELSE x509_int_loop(tab, code, 1)

init_x509_v_err_tab(tab) ==
    [i \in 1..Len(tab) |->
        IF strcmp0(tab[i].string, tab[i].value) THEN tab[i]
        ELSE [tab[i] EXCEPT !.code = atoi(tab[i].value)]]

(***************************************************************************)
(* curves_list and its lookups.                                            *)
(***************************************************************************)
\* V(w, x, y, z): five lines of the table, with the value of x in OpenSSL
\* (NID_brainpoolP256r1tls13 is 1285 where it is defined).
CurveMacros ==
    << [curve_id |-> 19, macro |-> <<78, 73, 68, 95, 88, 57, 95, 54, 50, 95, 112, 114, 105, 109, 101, 49, 57, 50, 118, 49>>, value |-> <<52, 48, 57>>,
        name |-> <<115, 101, 99, 112, 49, 57, 50, 114, 49>>, nist |-> Str(<<80, 45, 49, 57, 50>>)],
       [curve_id |-> 22, macro |-> <<78, 73, 68, 95, 115, 101, 99, 112, 50, 53, 54, 107, 49>>, value |-> <<55, 49, 52>>,
        name |-> <<115, 101, 99, 112, 50, 53, 54, 107, 49>>, nist |-> NullStr],
       [curve_id |-> 23, macro |-> <<78, 73, 68, 95, 88, 57, 95, 54, 50, 95, 112, 114, 105, 109, 101, 50, 53, 54, 118, 49>>, value |-> <<52, 49, 53>>,
        name |-> <<115, 101, 99, 112, 50, 53, 54, 114, 49>>, nist |-> Str(<<80, 45, 50, 53, 54>>)],
       [curve_id |-> 31, macro |-> <<78, 73, 68, 95, 98, 114, 97, 105, 110, 112, 111, 111, 108, 80, 50, 53, 54, 114, 49, 116, 108, 115, 49, 51>>, value |-> <<49, 50, 56, 53>>,
        name |-> <<98, 114, 97, 105, 110, 112, 111, 111, 108, 80, 50, 53, 54, 114, 49, 116, 108, 115, 49, 51>>, nist |-> NullStr],
       [curve_id |-> 25497, macro |-> <<45, 49>>, value |-> <<45, 49>>,
        name |-> <<88, 50, 53, 53, 49, 57, 75, 121, 98, 101, 114, 55, 54, 56, 68, 114, 97, 102, 116, 48, 48>>, nist |-> NullStr] >>

CurvesList(defined) ==
    [i \in 1..Len(CurveMacros) |->
        [curve_id |-> CurveMacros[i].curve_id,
         nid |-> -1,
         nid_val_str |-> IF i \in defined THEN CurveMacros[i].value
                         ELSE CurveMacros[i].macro,
         name |-> CurveMacros[i].name,
         nist |-> CurveMacros[i].nist]]

init_curves_tab(tab) ==
    [i \in 1..Len(tab) |->
        LET r == strtol(tab[i].nid_val_str, 1)
        IN  IF r.end > 1 THEN [tab[i] EXCEPT !.nid = r.val] ELSE tab[i]]

RECURSIVE curveid_loop(_, _, _)
curveid_loop(tab, curve_id, i) ==
    IF i > Len(tab) THEN NullStr
    ELSE IF tab[i].curve_id = curve_id THEN Str(tab[i].name)
    ELSE curveid_loop(tab, curve_id, i + 1)

curveid2str(tab, curve_id) == curveid_loop(tab, curve_id, 1)

\* The mutant compares the SECG names only.
RECURSIVE curves2nid_loop_secg(_, _, _)
curves2nid_loop_secg(tab, curve, i) ==
    IF i > Len(tab) THEN -1
    ELSE IF strcmp0(curve, tab[i].name) THEN tab[i].nid
    ELSE curves2nid_loop_secg(tab, curve, i + 1)

RECURSIVE curves2nid_loop(_, _, _)
curves2nid_loop(tab, curve, i) ==
    IF i > Len(tab) THEN -1
    ELSE IF \/ strcmp0(curve, tab[i].name)
            \/ (tab[i].nist.exists /\ strcmp0(curve, tab[i].nist.str))
    THEN tab[i].nid
    ELSE curves2nid_loop(tab, curve, i + 1)

curves2nid(tab, curve) == curves2nid_loop(tab, curve, 1)

(***************************************************************************)
(* The inputs the calls are made with.                                     *)
(***************************************************************************)
Bytes(n, first) == [i \in 1..n |-> first + i - 1]

NoSerial == [exists |-> FALSE, data |-> <<>>]
Serials ==
    {NoSerial} \cup {[exists |-> TRUE, data |-> Bytes(n, 17)] : n \in 0..MaxSerialLen}

\* i2d_X509: a failure (-1, 0) or an encoding, which starts with the
\* SEQUENCE tag 0x30.
Ders ==
    {[len |-> e, bytes |-> <<>>] : e \in {-1, 0}}
    \cup {[len |-> n, bytes |-> <<48>> \o Bytes(n - 1, 129)] : n \in 1..MaxDerLen}

\* ASN.1 times of n bytes: the two leading bytes vary, digits follow.
TimeData(n, b0, b1) ==
    [i \in 1..n |-> IF i = 1 THEN b0 ELSE IF i = 2 THEN b1 ELSE 48 + (i % 10)]
V_ASN1_OCTET_STRING == 4
Times ==
    {[type |-> V_ASN1_GENERALIZEDTIME, data |-> TimeData(n, b0, b1)] :
        n \in 9..MaxTimeLen, b0 \in {49, 50}, b1 \in {48, 49}}
    \cup {[type |-> V_ASN1_UTCTIME, data |-> TimeData(n, b0, 48)] :
        n \in 9..MaxTimeLen, b0 \in {0, 50, 52, 53, 57}}
    \cup {[type |-> V_ASN1_OCTET_STRING, data |-> TimeData(12, 50, 48)]}

\* Distinguished names: every sequence of at most MaxEntries pool entries,
\* the name of the worked example, and a name with three CN entries.
sn_CN == <<67, 78>>
sn_O == <<79>>
EntryPool ==
    { [sn |-> sn_CN, value |-> <<97>>],            \* CN=a
      [sn |-> sn_CN, value |-> <<98, 99>>],        \* CN=bc
      [sn |-> sn_O,  value |-> <<100>>] }          \* O=d
RECURSIVE NamesOfLen(_)
NamesOfLen(n) ==
    IF n = 0 THEN {<<>>}
    ELSE {Append(a, e) : a \in NamesOfLen(n - 1), e \in EntryPool}
ExampleName ==                                     \* CN=example.com, O=Acme
    << [sn |-> sn_CN, value |-> <<101, 120, 97, 109, 112, 108, 101, 46, 99, 111, 109>>],
       [sn |-> sn_O,  value |-> <<65, 99, 109, 101>>] >>
ExampleOneline ==                                  \* "/CN=example.com/O=Acme"
    <<47, 67, 78, 61, 101, 120, 97, 109, 112, 108, 101, 46, 99, 111, 109,
      47, 79, 61, 65, 99, 109, 101>>
ThreeCN ==                                         \* CN=a, O=d, CN=bc, CN=efg
    << [sn |-> sn_CN, value |-> <<97>>], [sn |-> sn_O, value |-> <<100>>],
       [sn |-> sn_CN, value |-> <<98, 99>>], [sn |-> sn_CN, value |-> <<101, 102, 103>>] >>
Names ==
    UNION {NamesOfLen(n) : n \in 0..MaxEntries} \cup {ExampleName, ThreeCN}

\* Attribute names asked of ssl_sock_get_dn_entry: "CN", "cn", "o", "OU".
EntryNames == { <<67, 78>>, <<99, 110>>, <<111>>, <<79, 85>> }
Positions == -3..3

\* Format names asked of ssl_sock_get_dn_formatted: "rfc2253", "RFC2253".
Formats == { rfc2253, <<82, 70, 67, 50, 50, 53, 51>> }
LibOutcomes == {"ok", "bio_null", "print_err"}

NoPkey == [exists |-> FALSE, base_id |-> "none", bits |-> 0]
Pkeys ==
    {NoPkey} \cup {[exists |-> TRUE, base_id |-> f, bits |-> b] :
                      f \in {"RSA", "EC", "DSA", "DH"}, b \in {0, 256, 2048}}

\* Inputs of exclude_tls_grease: pairs that are GREASE (0x0A0A, 0x1A1A),
\* pairs that are not, and odd lengths.
GreaseInputs ==
    { <<>>, <<10>>, <<10, 10>>, <<26, 27>>, <<0, 1>>, <<26, 26, 0>>,
      <<0, 1, 26>>, <<10, 10, 0, 1>>, <<0, 1, 26, 27>>, <<27, 27, 10, 10>> }

DefaultCert ==
    [ serial   |-> [exists |-> TRUE, data |-> Bytes(2, 17)],
      der      |-> [len |-> 2, bytes |-> <<48, 129>>],
      notafter |-> [type |-> V_ASN1_UTCTIME, data |-> TimeData(13, 50, 48)],
      subject  |-> <<[sn |-> sn_CN, value |-> <<97>>]>>,
      pkey     |-> [exists |-> TRUE, base_id |-> "RSA", bits |-> 2048] ]

NoD == [exists |-> FALSE, type |-> 0, data |-> <<>>]
NoVersion == [exists |-> FALSE, str |-> <<>>]
NoChain == [exists |-> FALSE, certs |-> <<>>]
NoSsl ==
    [peer |-> 0, stash |-> 0, chain |-> NoChain,
     refs |-> [c \in 1..MaxCerts |-> 0], held |-> [c \in 1..MaxCerts |-> 0]]
NoInitcalls == [x509 |-> 0, curves |-> 0]

InitBuffers(caps) ==
    UNION {{Buffer(s, dt) : dt \in 0..Min(s, MaxCap)} : s \in caps}

InitWith(caps, certs) ==
    /\ out \in InitBuffers(caps)
    /\ oob = FALSE
    /\ call = [op |-> "none", arg |-> <<>>, ret |-> 0]
    /\ crt \in certs
    /\ d = NoD
    /\ version = NoVersion
    /\ ssl = NoSsl
    /\ x509_v_codes = X509VCodes({})
    /\ curves_list = CurvesList({})
    /\ initcalls = NoInitcalls

(***************************************************************************)
(* One action per function: the caller makes the call on its buffer.       *)
(***************************************************************************)
\* A store outside the area is undefined behaviour: nothing is modelled
\* after it.
Call(op, arg, r) ==
    /\ ~oob
    /\ out' = r.out
    /\ oob' = (oob \/ r.oob)
    /\ call' = [op |-> op, arg |-> arg, ret |-> r.ret]
    /\ UNCHANGED <<crt, d, version, ssl, x509_v_codes, curves_list, initcalls>>

GetSerial == Call("ssl_sock_get_serial", <<>>, ssl_sock_get_serial(crt, out))

Crt2Der == Call("ssl_sock_crt2der", <<>>, ssl_sock_crt2der(crt, out))

GetTime == Call("ssl_sock_get_time", <<>>, ssl_sock_get_time(crt.notafter, out))

GetDnEntry ==
    \E entry \in EntryNames, pos \in Positions :
        Call("ssl_sock_get_dn_entry", [entry |-> entry, pos |-> pos],
             ssl_sock_get_dn_entry(crt.subject, entry, pos, out))

GetDnFormatted ==
    \E format \in Formats, lib \in LibOutcomes :
        Call("ssl_sock_get_dn_formatted", [format |-> format, lib |-> lib],
             ssl_sock_get_dn_formatted(crt.subject, format, lib, out))

GetDnOneline ==
    Call("ssl_sock_get_dn_oneline", <<>>, ssl_sock_get_dn_oneline(crt.subject, out))

CertGetPkeyAlgo ==
    Call("cert_get_pkey_algo", <<>>, cert_get_pkey_algo(crt, out))

ExcludeTlsGrease ==
    \E input \in GreaseInputs :
        Call("exclude_tls_grease", input,
             exclude_tls_grease(input, Len(input), out))

(***************************************************************************)
(* Specifications: the extractors a group of properties is about, called   *)
(* in any order on one buffer.                                             *)
(***************************************************************************)
CertsCopy ==
    {[DefaultCert EXCEPT !.serial = s, !.subject = a] : s \in Serials, a \in Names}
InitCopy == InitWith(0..MaxCap \cup ExampleCaps, CertsCopy)
NextCopy == GetSerial \/ GetDnOneline
SpecCopy == InitCopy /\ [][NextCopy]_vars

\* All seven callers of the buffer on capacities 0..2: the capacities at
\* which size - 2 wraps, and one at which it does not.
CertsAll ==
    {[DefaultCert EXCEPT !.serial = x] : x \in Serials}
    \cup {[DefaultCert EXCEPT !.der = x] : x \in Ders}
    \cup {[DefaultCert EXCEPT !.notafter = x] : x \in {t \in Times : Len(t.data) = 12}}
    \cup {[DefaultCert EXCEPT !.subject = x] : x \in NamesOfLen(0) \cup NamesOfLen(1) \cup {ThreeCN}}
InitAll == InitWith(0..2, CertsAll)
NextAll ==
    \/ GetSerial
    \/ Crt2Der
    \/ GetTime
    \/ GetDnEntry
    \/ GetDnOneline
    \/ GetDnFormatted
    \/ ExcludeTlsGrease
SpecAll == InitAll /\ [][NextAll]_vars

CertsDer ==
    {[DefaultCert EXCEPT !.der = x, !.serial = y] : x \in Ders, y \in Serials}
InitDer == InitWith(0..MaxCap, CertsDer)
NextDer == Crt2Der \/ GetSerial
SpecDer == InitDer /\ [][NextDer]_vars

CertsText ==
    {[DefaultCert EXCEPT !.subject = x, !.pkey = y] : x \in Names, y \in Pkeys}
InitText == InitWith(0..MaxCap \cup {7, 8}, CertsText)
NextText == GetDnFormatted \/ CertGetPkeyAlgo
SpecText == InitText /\ [][NextText]_vars

CertsTime == {[DefaultCert EXCEPT !.notafter = x] : x \in Times}
InitTime == InitWith(0..MaxTimeLen, CertsTime)
NextTime == GetTime \/ GetSerial
SpecTime == InitTime /\ [][NextTime]_vars

CertsEntry == {[DefaultCert EXCEPT !.subject = x] : x \in Names}
InitEntry == InitWith(0..MaxCap, CertsEntry)
NextEntry == GetDnEntry \/ GetSerial
SpecEntry == InitEntry /\ [][NextEntry]_vars

(***************************************************************************)
(* Properties of the buffer extractors.                                    *)
(***************************************************************************)
\* Length of the oneline rendering: 1 + len(short name) + 1 + len(value)
\* for every entry.
RECURSIVE OnelineLength(_)
OnelineLength(a) ==
    IF Len(a) = 0 THEN 0
    ELSE 1 + Len(Head(a).sn) + 1 + Len(Head(a).value) + OnelineLength(Tail(a))

TriState(L) ==
    /\ (call.ret = 1 /\ out.data = L) <=> (out.size >= L)
    /\ (call.ret = -1) <=> (out.size < L)

\* C1: ssl_sock_get_serial and ssl_sock_get_dn_oneline return 1 with
\* out.data = L iff the capacity is at least the true length L of an existing
\* value, and -1 iff it is smaller; a missing serial and a name without
\* entries return 0; the name CN=example.com, O=Acme gives the 22 bytes
\* "/CN=example.com/O=Acme" at capacity 22 and -1 at capacity 21.
C1_CapacityLaw ==
    /\ call.op = "ssl_sock_get_serial" =>
          IF crt.serial.exists THEN TriState(Len(crt.serial.data))
          ELSE call.ret = 0
    /\ call.op = "ssl_sock_get_dn_oneline" =>
          /\ IF Len(crt.subject) > 0 THEN TriState(OnelineLength(crt.subject))
             ELSE call.ret = 0
          /\ crt.subject = ExampleName =>
                /\ OnelineLength(crt.subject) = 22
                /\ out.size = 22 =>
                      call.ret = 1 /\ out.data = 22 /\ out.area = ExampleOneline
                /\ out.size = 21 => call.ret = -1

C1_Witness ==
    /\ call.op = "ssl_sock_get_dn_oneline"
    /\ crt.subject = ExampleName
    /\ out.size = 22
    /\ call.ret = 1

\* C2: after any sequence of calls to the extractors and to
\* exclude_tls_grease, out.data <= out.size and no byte has been stored at
\* an index >= out.size.
C2_BufferBounds == out.data <= out.size /\ ~oob

\* C3: ssl_sock_crt2der returns 0 when the length-probing call of the
\* encoder reports a length <= 0, -1 when the length exceeds out.size, and 1
\* only with the len > 0 bytes of the encoding stored and out.data = len.
C3_Crt2DerOutcomes ==
    call.op = "ssl_sock_crt2der" =>
        LET len == crt.der.len
        IN  /\ len <= 0 => call.ret = 0
            /\ len > out.size => call.ret = -1
            /\ call.ret = 1 =>
                  /\ len > 0
                  /\ out.data = len
                  /\ SubSeq(out.area, 1, len) = crt.der.bytes

\* The text "<FAMILY><bits>" of a RSA, EC or DSA key.
PkeyText(pkey) ==
    (CASE pkey.base_id = "RSA" -> <<82, 83, 65>>
       [] pkey.base_id = "EC"  -> <<69, 67>>
       [] pkey.base_id = "DSA" -> <<68, 83, 65>>) \o Decimal(pkey.bits)

\* C4: ssl_sock_get_dn_formatted("rfc2253") returns -1 when the rendering
\* of a non-empty name is longer than out.size, and cert_get_pkey_algo
\* returns -1 when chunk_printf fails on the text of a RSA/EC/DSA key; both
\* return 1 only with out.data the full length of the text.
C4_TextCapacityFailure ==
    /\ ( /\ call.op = "ssl_sock_get_dn_formatted"
         /\ call.arg.format = rfc2253
         /\ call.arg.lib = "ok"
         /\ Len(crt.subject) > 0 ) =>
            LET text == X509_NAME_print_ex(crt.subject)
            IN  /\ Len(text) > out.size => call.ret = -1
                /\ call.ret = 1 => out.data = Len(text)
    /\ ( /\ call.op = "cert_get_pkey_algo"
         /\ crt.pkey.exists
         /\ crt.pkey.base_id \in {"RSA", "EC", "DSA"} ) =>
            LET text == PkeyText(crt.pkey)
            IN  /\ chunk_printf(out, text).ret < 0 => call.ret = -1
                /\ call.ret = 1 => out.data = Len(text)

\* C5: ssl_sock_get_time gives, for a GENERALIZEDTIME of n >= 12 bytes that
\* starts with "20", 1 with bytes 2..n-1 and out.data = n - 2 when
\* out.size >= n - 2 and -1 otherwise; for a UTCTIME of n >= 10 bytes whose
\* first byte is below '5', 1 with the n bytes and out.data = n when
\* out.size >= n and -1 otherwise; 0 in every other case; and leaves
\* out.area and out.data as they were whenever it returns 0 or -1.
C5_Step ==
    call'.op = "ssl_sock_get_time" =>
        LET tm == crt.notafter
            n  == Len(tm.data)
            r  == call'.ret
        IN  /\ tm.type = V_ASN1_GENERALIZEDTIME =>
                  IF n >= 12 /\ tm.data[1] = 50 /\ tm.data[2] = 48
                  THEN IF out.size >= n - 2
                       THEN /\ r = 1
                            /\ out'.data = n - 2
                            /\ SubSeq(out'.area, 1, n - 2) = SubSeq(tm.data, 3, n)
                       ELSE r = -1
                  ELSE r = 0
            /\ tm.type = V_ASN1_UTCTIME =>
                  IF n >= 10 /\ tm.data[1] < 53
                  THEN IF out.size >= n
                       THEN /\ r = 1
                            /\ out'.data = n
                            /\ SubSeq(out'.area, 1, n) = tm.data
                       ELSE r = -1
                  ELSE r = 0
            /\ tm.type \notin {V_ASN1_GENERALIZEDTIME, V_ASN1_UTCTIME} => r = 0
            /\ r \in {0, -1} => out'.area = out.area /\ out'.data = out.data
            /\ out'.size = out.size
C5_GetTime == [][C5_Step]_vars

C5_Witness ==
    /\ call.op = "ssl_sock_get_time"
    /\ crt.notafter.type = V_ASN1_GENERALIZEDTIME
    /\ Len(crt.notafter.data) = 13
    /\ call.ret = 1
    /\ out.data = 11

\* The entries of a whose attribute name is entry, ignoring case.
Upper(ch) == IF ch >= 97 /\ ch <= 122 THEN ch - 32 ELSE ch
SameName(x, y) ==
    Len(x) = Len(y) /\ \A i \in 1..Len(x) : Upper(x[i]) = Upper(y[i])
Matching(a, entry) == {i \in 1..Len(a) : SameName(a[i].sn, entry)}

\* C6: ssl_sock_get_dn_entry returns the value of the k-th matching entry
\* for pos = k > 0 and of the k-th matching entry from the end for
\* pos = -k < 0; 0 with out.data = 0 when fewer than |pos| entries match or
\* pos = 0; -1 with out.data = 0 and out.area as it was when the value is
\* longer than out.size; else 1 with the value in out.area and its length in
\* out.data.
C6_Step ==
    call'.op = "ssl_sock_get_dn_entry" =>
        LET a   == crt.subject
            pos == call'.arg.pos
            m   == Matching(a, call'.arg.entry)
            k   == IF pos < 0 THEN -pos ELSE pos
            r   == call'.ret
        IN  IF pos = 0 \/ Cardinality(m) < k
            THEN r = 0 /\ out'.data = 0
            ELSE LET i == IF pos > 0
                          THEN CHOOSE x \in m : Cardinality({y \in m : y <= x}) = k
                          ELSE CHOOSE x \in m : Cardinality({y \in m : y >= x}) = k
                     v == a[i].value
                 IN  IF Len(v) > out.size
                     THEN r = -1 /\ out'.data = 0 /\ out'.area = out.area
                     ELSE /\ r = 1
                          /\ out'.data = Len(v)
                          /\ SubSeq(out'.area, 1, Len(v)) = v
C6_GetDnEntry == [][C6_Step]_vars

C6_Witness ==
    /\ call.op = "ssl_sock_get_dn_entry"
    /\ crt.subject = ThreeCN
    /\ call.arg.pos = -2
    /\ call.arg.entry = <<99, 110>>
    /\ call.ret = 1
    /\ out.data = 2

(***************************************************************************)
(* asn1_generalizedtime_to_epoch: inputs, action, specification.           *)
(***************************************************************************)
TwoDigits(n) == <<48 + (n \div 10), 48 + (n % 10)>>
FourDigits(n) == TwoDigits(n \div 100) \o TwoDigits(n % 100)

\* Date and time prefixes YYYYMMDDHHMM[SS[.fraction]]; the days include
\* some no month has.
EpochYears == {1970, 1972, 1999, 2000, 2001, 2023, 2024, 2036}
EpochDaysOfMonth == {1, 15, 28, 29, 30, 31}
EpochSeconds ==
    { <<>>, <<48, 48>>, <<52, 53>>, <<53, 57>>,          \* none, 00, 45, 59
      <<52, 53, 46, 53>>, <<52, 53, 46, 49, 50, 51>> }   \* 45.5, 45.123
EpochPrefixes ==
    { FourDigits(y) \o TwoDigits(mo) \o TwoDigits(dy) \o TwoDigits(h) \o TwoDigits(mi) \o sec :
        y \in EpochYears, mo \in 1..12, dy \in EpochDaysOfMonth,
        h \in {0, 23}, mi \in {0, 59}, sec \in EpochSeconds }
\* "Z", "+0100", "-0530", "+0000", "-1200"
EpochZones ==
    { <<90>>, <<43, 48, 49, 48, 48>>, <<45, 48, 53, 51, 48>>,
      <<43, 48, 48, 48, 48>>, <<45, 49, 50, 48, 48>> }
WellFormedTimes == {t \o z : t \in EpochPrefixes, z \in EpochZones}

\* 20230115123045Z, 202301151230Z, 20230115123045.12+0100,
\* 20230115123045-0530, 20230115123045+0100, and the malformed strings
\* made of them: every proper prefix, one
\* character of them replaced by '/' or ':' (':' not in the year, whose
\* value would leave the range of the model), a byte appended, a month of
\* 00 or 13, a zone of the wrong length.
EpochBases ==
    { <<50, 48, 50, 51, 48, 49, 49, 53, 49, 50, 51, 48, 52, 53, 90>>,
      <<50, 48, 50, 51, 48, 49, 49, 53, 49, 50, 51, 48, 90>>,
      <<50, 48, 50, 51, 48, 49, 49, 53, 49, 50, 51, 48, 52, 53, 46, 49, 50, 43, 48, 49, 48, 48>>,
      <<50, 48, 50, 51, 48, 49, 49, 53, 49, 50, 51, 48, 52, 53, 45, 48, 53, 51, 48>>,
      <<50, 48, 50, 51, 48, 49, 49, 53, 49, 50, 51, 48, 52, 53, 43, 48, 49, 48, 48>> }
Replace(t, i, ch) == [k \in 1..Len(t) |-> IF k = i THEN ch ELSE t[k]]
MalformedTimes ==
    UNION { {SubSeq(t, 1, n) : n \in 0..(Len(t) - 1)} : t \in EpochBases }
    \cup UNION { {Replace(t, i, 47) : i \in 2..Len(t)} : t \in EpochBases }
    \cup UNION { {Replace(t, i, 58) : i \in 5..Len(t)} : t \in EpochBases }
    \cup UNION { {t \o <<ch>> : ch \in {48, 90, 0}} : t \in EpochBases }
    \cup { <<50, 48, 50, 51, 49, 51, 49, 53, 48, 48, 48, 48, 48, 48, 90>>,    \* 20231315000000Z
           <<50, 48, 50, 51, 48, 48, 49, 53, 48, 48, 48, 48, 48, 48, 90>>,    \* 20230015000000Z
           <<50, 48, 50, 51, 48, 49, 49, 53, 49, 50, 51, 48, 52, 53, 43, 48, 49, 48>>,          \* ...+010
           <<50, 48, 50, 51, 48, 49, 49, 53, 49, 50, 51, 48, 52, 53, 43, 48, 49, 48, 48, 48>>,  \* ...+01000
           <<50, 48, 50, 51, 48, 49, 49, 53, 49, 50, 51, 48, 52, 53, 88>> }                     \* ...X

EpochInputs ==
    {NoD}
    \cup {[exists |-> TRUE, type |-> V_ASN1_GENERALIZEDTIME, data |-> t] :
             t \in WellFormedTimes \cup EpochBases \cup MalformedTimes}
    \cup {[exists |-> TRUE, type |-> V_ASN1_UTCTIME, data |-> t] : t \in EpochBases}

InitEpoch ==
    /\ out = Buffer(0, 0)
    /\ oob = FALSE
    /\ call = [op |-> "none", arg |-> <<>>, ret |-> 0]
    /\ crt = DefaultCert
    /\ d \in EpochInputs
    /\ version = NoVersion
    /\ ssl = NoSsl
    /\ x509_v_codes = X509VCodes({})
    /\ curves_list = CurvesList({})
    /\ initcalls = NoInitcalls

Asn1GeneralizedtimeToEpoch ==
    /\ call.op = "none"
    /\ call' = [op |-> "asn1_generalizedtime_to_epoch", arg |-> <<>>,
                ret |-> asn1_generalizedtime_to_epoch(d)]
    /\ UNCHANGED <<out, oob, crt, d, version, ssl, x509_v_codes, curves_list, initcalls>>

SpecEpoch == InitEpoch /\ [][Asn1GeneralizedtimeToEpoch]_vars

(***************************************************************************)
(* Properties of asn1_generalizedtime_to_epoch.                            *)
(***************************************************************************)
IsDigit(ch) == ch >= 48 /\ ch <= 57
DigitsAt(t, from, to) == to <= Len(t) /\ \A i \in from..to : IsDigit(t[i])
Num(t, i) == 10 * (t[i] - 48) + (t[i + 1] - 48)

\* The proleptic Gregorian calendar, day by day.
IsLeap(y) == (y % 4 = 0 /\ y % 100 # 0) \/ y % 400 = 0
DaysInMonth(y, m) ==
    IF m = 2 THEN (IF IsLeap(y) THEN 29 ELSE 28)
    ELSE IF m \in {4, 6, 9, 11} THEN 30 ELSE 31
\* One day for each day of the years 1970..y-1: 365 a year and one more
\* for each leap year among them.
DaysBeforeYear(y) ==
    365 * (y - 1970) + Cardinality({x \in 1970..(y - 1) : IsLeap(x)})
RECURSIVE DaysBeforeMonth(_, _)
DaysBeforeMonth(y, m) ==
    IF m <= 1 THEN 0 ELSE DaysBeforeMonth(y, m - 1) + DaysInMonth(y, m - 1)
CivilDays(y, m, dy) == DaysBeforeYear(y) + DaysBeforeMonth(y, m) + (dy - 1)

\* Where the seconds field ends, and where the fraction after it ends.
HasSeconds(t) == Len(t) >= 13 /\ IsDigit(t[13])
SecondsEnd(t) == IF HasSeconds(t) THEN 14 ELSE 12
RECURSIVE DigitsRunEnd(_, _)
DigitsRunEnd(t, i) ==          \* the last index of the digits that follow index i
    IF i + 1 <= Len(t) /\ IsDigit(t[i + 1]) THEN DigitsRunEnd(t, i + 1) ELSE i
PrefixEnd(t) ==
    IF HasSeconds(t) /\ Len(t) >= 15 /\ t[15] = 46 THEN DigitsRunEnd(t, 15)
    ELSE SecondsEnd(t)

\* A well-formed date and time YYYYMMDDHHMM[SS[.fraction]] at the start of
\* t, of a real calendar day of 1970 or later.
WellFormedPrefix(t) ==
    /\ DigitsAt(t, 1, 12)
    /\ HasSeconds(t) => DigitsAt(t, 13, 14)
    /\ (100 * Num(t, 1) + Num(t, 3)) >= 1970
    /\ Num(t, 5) \in 1..12
    /\ Num(t, 7) \in 1..DaysInMonth(100 * Num(t, 1) + Num(t, 3), Num(t, 5))
    /\ Num(t, 9) \in 0..23
    /\ Num(t, 11) \in 0..59
    /\ HasSeconds(t) => Num(t, 13) \in 0..59
    /\ (HasSeconds(t) /\ Len(t) >= 15 /\ t[15] = 46) => PrefixEnd(t) > 15

CivilEpoch(t) ==
    CivilDays(100 * Num(t, 1) + Num(t, 3), Num(t, 5), Num(t, 7)) * 86400
    + Num(t, 9) * 3600 + Num(t, 11) * 60
    + (IF HasSeconds(t) THEN Num(t, 13) ELSE 0)

IsZulu(t) == WellFormedPrefix(t) /\ Len(t) = PrefixEnd(t) + 1 /\ t[Len(t)] = 90

Called == call.op = "asn1_generalizedtime_to_epoch" /\ d.exists
          /\ d.type = V_ASN1_GENERALIZEDTIME

\* The same month one to four centuries later: years whose seconds are
\* beyond the integers of the model checker, for the day count.
CenturiesAhead == {100, 200, 300, 400}

\* C7: for every well-formed YYYYMMDDHHMM[SS[.fraction]]Z of a real day of
\* 1970 or later the result is the number of seconds since
\* 1970-01-01T00:00:00Z in the Gregorian calendar, absent seconds counting
\* as 0 and the fraction ignored; "20230115123045Z" gives 1673785845.  The
\* day count of the code is the calendar's also one to four centuries after
\* the year parsed (2100 among them).
C7_EpochOfZulu ==
    /\ (Called /\ IsZulu(d.data)) => call.ret = CivilEpoch(d.data)
    /\ (Called /\ d.data = <<50, 48, 50, 51, 48, 49, 49, 53, 49, 50, 51, 48, 52, 53, 90>>)
          => call.ret = 1673785845
    /\ (Called /\ IsZulu(d.data)) =>
          \A c \in CenturiesAhead :
              epoch_days(100 * Num(d.data, 1) + Num(d.data, 3) + c, Num(d.data, 5))
              = CivilDays(100 * Num(d.data, 1) + Num(d.data, 3) + c, Num(d.data, 5), 1)

C7_Witness ==
    /\ Called
    /\ IsZulu(d.data)
    /\ SubSeq(d.data, 1, 8) = <<50, 48, 50, 52, 48, 50, 50, 57>>    \* 2024-02-29
    /\ call.ret > 0

\* A well-formed prefix followed by +HHMM or -HHMM.
IsOffset(t) ==
    /\ WellFormedPrefix(t)
    /\ Len(t) = PrefixEnd(t) + 5
    /\ t[PrefixEnd(t) + 1] \in {43, 45}
    /\ DigitsAt(t, PrefixEnd(t) + 2, PrefixEnd(t) + 5)
OffsetSeconds(t) ==
    Num(t, PrefixEnd(t) + 2) * 3600 + Num(t, PrefixEnd(t) + 4) * 60
AsZulu(dd) ==
    [dd EXCEPT !.data = SubSeq(dd.data, 1, PrefixEnd(dd.data)) \o <<90>>]

\* C8: parse(T "+HHMM") = parse(T "Z") - (HH*3600 + MM*60) and
\* parse(T "-HHMM") = parse(T "Z") + (HH*3600 + MM*60) for every well-formed
\* prefix T; "20230115123045+0100" is 3600 less than "20230115123045Z".
C8_TimezoneOffset ==
    (Called /\ IsOffset(d.data)) =>
        call.ret = asn1_generalizedtime_to_epoch(AsZulu(d))
                   + (IF d.data[PrefixEnd(d.data) + 1] = 43 THEN -1 ELSE 1)
                     * OffsetSeconds(d.data)

\* The malformed inputs the claim lists.
ClaimedMalformed(t) ==
    \/ Len(t) < 12                                   \* ends before the minute is complete
    \/ \E i \in 1..12 : ~IsDigit(t[i])               \* a non-digit in YYYYMMDDHHMM
    \/ ~(Num(t, 5) \in 1..12)                        \* month outside 1..12
    \/ HasSeconds(t) /\ Len(t) < 14                  \* half a seconds field
    \/ HasSeconds(t) /\ ~IsDigit(t[14])              \* a non-digit in the seconds
    \/ Len(t) <= PrefixEnd(t)                        \* no timezone marker
    \/ ~(t[PrefixEnd(t) + 1] \in {90, 43, 45})
    \/ t[PrefixEnd(t) + 1] = 90 /\ Len(t) # PrefixEnd(t) + 1       \* a byte after Z
    \/ /\ t[PrefixEnd(t) + 1] \in {43, 45}
       /\ \/ Len(t) # PrefixEnd(t) + 5               \* not four characters after the sign
          \/ ~DigitsAt(t, PrefixEnd(t) + 2, PrefixEnd(t) + 5)      \* a non-digit in the offset

\* C9: asn1_generalizedtime_to_epoch returns -1 for NULL, for another tag
\* and for every malformed string: cut short, without a timezone marker,
\* with a month outside 1..12, with a non-digit where a digit is expected,
\* with a byte after Z or a sign not followed by exactly four characters.
C9_MalformedIsMinusOne ==
    ( /\ call.op = "asn1_generalizedtime_to_epoch"
      /\ \/ ~d.exists
         \/ d.type # V_ASN1_GENERALIZEDTIME
         \/ ClaimedMalformed(d.data) ) => call.ret = -1

(***************************************************************************)
(* openssl_version_parser: inputs, action, specification.  The major       *)
(* numbers that parse stay below 8: the packed value of a larger one is    *)
(* beyond the integers of the model checker.                               *)
(***************************************************************************)
\* "0", "1", "3", "7", "16", "9999", "", "-1", " 1"
VersionMajors ==
    { <<48>>, <<49>>, <<51>>, <<55>>, <<49, 54>>, <<57, 57, 57, 57>>, <<>>,
      <<45, 49>>, <<32, 49>> }
\* "0", "9", "255", "256", ""
VersionMinors == { <<48>>, <<57>>, <<50, 53, 53>>, <<50, 53, 54>>, <<>> }
\* "0", "2", "8", "255", "256"
VersionFixes == { <<48>>, <<50>>, <<56>>, <<50, 53, 53>>, <<50, 53, 54>> }
\* ".", "x"
VersionSeps == { <<46>>, <<120>> }
\* "", "-beta2", "-beta14", "-beta15", "-beta", "-alpha17", "-dev", "u",
\* "zh", "ZH", "a", "zzzzzzzzzzz", ".1", "-"
VersionSuffixes ==
    { <<>>, <<45, 98, 101, 116, 97, 50>>, <<45, 98, 101, 116, 97, 49, 52>>,
      <<45, 98, 101, 116, 97, 49, 53>>, <<45, 98, 101, 116, 97>>,
      <<45, 97, 108, 112, 104, 97, 49, 55>>, <<45, 100, 101, 118>>,
      <<117>>, <<122, 104>>, <<90, 72>>, <<97>>,
      <<122, 122, 122, 122, 122, 122, 122, 122, 122, 122, 122>>,
      <<46, 49>>, <<45>> }
VersionStrings ==
    { ma \o s1 \o mi \o s2 \o fx \o su :
        ma \in VersionMajors, s1 \in VersionSeps, mi \in VersionMinors,
        s2 \in VersionSeps, fx \in VersionFixes, su \in VersionSuffixes }
VersionInputs ==
    {NoVersion} \cup {[exists |-> TRUE, str |-> x] : x \in VersionStrings \cup {<<>>}}

InitVersion ==
    /\ out = Buffer(0, 0)
    /\ oob = FALSE
    /\ call = [op |-> "none", arg |-> <<>>, ret |-> 0]
    /\ crt = DefaultCert
    /\ d = NoD
    /\ version \in VersionInputs
    /\ ssl = NoSsl
    /\ x509_v_codes = X509VCodes({})
    /\ curves_list = CurvesList({})
    /\ initcalls = NoInitcalls

OpensslVersionParser ==
    /\ call.op = "none"
    /\ call' = [op |-> "openssl_version_parser", arg |-> <<>>,
                ret |-> openssl_version_parser(version)]
    /\ UNCHANGED <<out, oob, crt, d, version, ssl, x509_v_codes, curves_list, initcalls>>

SpecVersion == InitVersion /\ [][OpensslVersionParser]_vars

(***************************************************************************)
(* Properties of openssl_version_parser.                                   *)
(***************************************************************************)
RECURSIVE Decimal2Nat(_, _, _)
Decimal2Nat(str, from, to) ==       \* the number written at from..to
    IF from > to THEN 0
    ELSE 10 * Decimal2Nat(str, from, to - 1) + (str[to] - 48)

IsLetter(ch) == (ch >= 65 /\ ch <= 90) \/ (ch >= 97 /\ ch <= 122)
RECURSIVE LetterSum(_)
LetterSum(w) ==
    IF Len(w) = 0 THEN 0 ELSE (Upper(Head(w)) - 65) + LetterSum(Tail(w))

\* MAJOR.MINOR.FIX and what follows, read off the string: the ends of the
\* three runs of digits and the suffix after the third.
MajorEnd(str) == DigitsRunEnd(str, 0)
MinorEnd(str) == DigitsRunEnd(str, MajorEnd(str) + 1)
FixEnd(str) == DigitsRunEnd(str, MinorEnd(str) + 1)
VMajor(str) == Decimal2Nat(str, 1, MajorEnd(str))
VMinor(str) == Decimal2Nat(str, MajorEnd(str) + 2, MinorEnd(str))
VFix(str) == Decimal2Nat(str, MinorEnd(str) + 2, FixEnd(str))
VSuffix(str) == SubSeq(str, FixEnd(str) + 1, Len(str))

HasThreeNumbers(str) ==
    /\ MajorEnd(str) >= 1
    /\ At(str, MajorEnd(str) + 1) = 46
    /\ MinorEnd(str) >= MajorEnd(str) + 2
    /\ At(str, MinorEnd(str) + 1) = 46
    /\ FixEnd(str) >= MinorEnd(str) + 2
    /\ VMajor(str) <= 15 /\ VMinor(str) <= 255 /\ VFix(str) <= 255

IsBetaSuffix(w) ==
    /\ Len(w) >= 6
    /\ SubSeq(w, 1, 5) = <<45>> \o beta
    /\ \A i \in 6..Len(w) : IsDigit(w[i])
    /\ Decimal2Nat(w, 6, Len(w)) \in 1..14
IsLetterSuffix(w) ==
    /\ Len(w) >= 1
    /\ \A i \in 1..Len(w) : IsLetter(w[i])
    /\ 1 + LetterSum(w) <= 255

Packed(major, minor, fix, patch, status) ==
    major * 2^28 + minor * 2^20 + fix * 2^12 + patch * 2^4 + status

Parsed == call.op = "openssl_version_parser" /\ version.exists

\* C10: a valid MAJOR.MINOR.FIX is packed as major<<28 | minor<<20 |
\* fix<<12 | patch<<4 | status with patch 0 and status 0xF; with -beta<N>,
\* patch 0 and status N; with letters, status 0xF and patch 1 + the sum of
\* (uppercased letter - 'A').  0.9.8zh, 1.0.2u, 3.0.0-alpha17, 3.0.0-beta2,
\* 3.0.0-beta14 and 3.0.0 give 0x0090821f, 0x1000215f, 0x30000000,
\* 0x30000002, 0x3000000e and 0x3000000f, in increasing order; "9999.0.0",
\* NULL and "" give 0.
C10_PackedVersion ==
    /\ (Parsed /\ HasThreeNumbers(version.str)) =>
          LET str == version.str
              w == VSuffix(str)
          IN  /\ Len(w) = 0 =>
                    call.ret = Packed(VMajor(str), VMinor(str), VFix(str), 0, 15)
              /\ IsBetaSuffix(w) =>
                    call.ret = Packed(VMajor(str), VMinor(str), VFix(str), 0,
                                      Decimal2Nat(w, 6, Len(w)))
              /\ IsLetterSuffix(w) =>
                    call.ret = Packed(VMajor(str), VMinor(str), VFix(str),
                                      1 + LetterSum(w), 15)
    /\ Parsed =>
          /\ version.str = <<48, 46, 57, 46, 56, 122, 104>> => call.ret = 9470495
          /\ version.str = <<49, 46, 48, 46, 50, 117>> => call.ret = 268443999
          /\ version.str = <<51, 46, 48, 46, 48, 45, 97, 108, 112, 104, 97, 49, 55>>
                => call.ret = 805306368
          /\ version.str = <<51, 46, 48, 46, 48, 45, 98, 101, 116, 97, 50>>
                => call.ret = 805306370
          /\ version.str = <<51, 46, 48, 46, 48, 45, 98, 101, 116, 97, 49, 52>>
                => call.ret = 805306382
          /\ version.str = <<51, 46, 48, 46, 48>> => call.ret = 805306383
          /\ version.str = <<57, 57, 57, 57, 46, 48, 46, 48>> => call.ret = 0
          /\ version.str = <<>> => call.ret = 0
    /\ (call.op = "openssl_version_parser" /\ ~version.exists) => call.ret = 0

C10_Witness ==
    /\ Parsed
    /\ version.str = <<49, 46, 48, 46, 50, 117>>
    /\ call.ret = 268443999

\* What the text says of the width of each field, read off the string.
MajorTooWide(str) == MajorEnd(str) >= 1 /\ VMajor(str) > 15
NoDotAfterMajor(str) == MajorEnd(str) >= 1 /\ At(str, MajorEnd(str) + 1) # 46
HasMinor(str) ==
    /\ MajorEnd(str) >= 1
    /\ At(str, MajorEnd(str) + 1) = 46
    /\ MinorEnd(str) >= MajorEnd(str) + 2
MinorTooWide(str) == HasMinor(str) /\ VMinor(str) > 255
NoDotAfterMinor(str) == HasMinor(str) /\ At(str, MinorEnd(str) + 1) # 46
HasFix(str) ==
    /\ HasMinor(str)
    /\ At(str, MinorEnd(str) + 1) = 46
    /\ FixEnd(str) >= MinorEnd(str) + 2
FixTooWide(str) == HasFix(str) /\ VFix(str) > 255
BetaTooWide(str) ==
    LET w == VSuffix(str)
    IN  /\ HasThreeNumbers(str)
        /\ Len(w) >= 6
        /\ SubSeq(w, 1, 5) = <<45>> \o beta
        /\ \A i \in 6..Len(w) : IsDigit(w[i])
        /\ Decimal2Nat(w, 6, Len(w)) > 14
PatchTooWide(str) ==
    LET w == VSuffix(str)
    IN  /\ HasThreeNumbers(str)
        /\ Len(w) >= 1
        /\ \A i \in 1..Len(w) : IsLetter(w[i])
        /\ 1 + LetterSum(w) > 255

\* C11: openssl_version_parser returns 0 whenever a field would exceed its
\* width in the packed value or a separator is malformed: major > 15,
\* minor > 255, fix > 255, a beta number > 14, a patch sum of the letters
\* > 255, or no '.' after the major or the minor number.
C11_TooWideIsZero ==
    ( /\ Parsed
      /\ \/ MajorTooWide(version.str)
         \/ NoDotAfterMajor(version.str)
         \/ MinorTooWide(version.str)
         \/ NoDotAfterMinor(version.str)
         \/ FixTooWide(version.str)
         \/ BetaTooWide(version.str)
         \/ PatchTooWide(version.str) )
    => call.ret = 0

(***************************************************************************)
(* exclude_tls_grease on its own: inputs of up to five bytes, buffers of   *)
(* up to MaxGreaseCap bytes.                                               *)
(***************************************************************************)
MaxGreaseCap == 5
GreaseStrings ==
    GreaseInputs \cup { <<0, 1, 26, 27, 1>>, <<10, 10, 26, 26, 0>>, <<26, 27, 0, 1, 10>> }

InitGrease == InitWith(0..MaxGreaseCap, {DefaultCert})
ExcludeTlsGreaseAlone ==
    \E input \in GreaseStrings :
        Call("exclude_tls_grease", input,
             exclude_tls_grease(input, Len(input), out))
SpecGrease == InitGrease /\ [][ExcludeTlsGreaseAlone]_vars

(***************************************************************************)
(* Properties of exclude_tls_grease.                                       *)
(***************************************************************************)
IsGrease(b0, b1) == b0 = b1 /\ b0 % 16 = 10

\* The retained pairs among the first n pairs of the input, in input order.
RECURSIVE RetainedPairs(_, _)
RetainedPairs(input, n) ==
    IF n = 0 THEN <<>>
    ELSE RetainedPairs(input, n - 1)
         \o (IF IsGrease(input[2 * n - 1], input[2 * n]) THEN <<>>
             ELSE <<input[2 * n - 1], input[2 * n]>>)

TailByte(input) == IF Len(input) % 2 = 1 THEN <<input[Len(input)]>> ELSE <<>>
Filtered(input) == RetainedPairs(input, Len(input) \div 2) \o TailByte(input)

\* C12: exclude_tls_grease appends, leaving bytes [0, data) unchanged, the
\* pairs of the input that are not GREASE, in input order, followed by the
\* last byte of an input of odd length: all of them when the remaining
\* capacity suffices, otherwise a leading run of whole retained pairs.  One
\* byte of a pair is never emitted alone: for an input of even length the
\* number of appended bytes is even.
C12_Step ==
    call'.op = "exclude_tls_grease" =>
        LET input == call'.arg
            all == Filtered(input)
            pairs == RetainedPairs(input, Len(input) \div 2)
            n == out'.data - out.data
        IN  /\ ~oob'
            /\ out'.size = out.size
            /\ n >= 0
            /\ out'.data <= out.size
            /\ \A i \in 1..out.data : out'.area[i] = out.area[i]
            /\ LET appended == SubSeq(out'.area, out.data + 1, out'.data)
               IN  IF out.size - out.data >= Len(all)
                   THEN appended = all
                   ELSE /\ n % 2 = 0
                        /\ n <= Len(pairs)
                        /\ appended = SubSeq(pairs, 1, n)
            /\ Len(input) % 2 = 0 => n % 2 = 0
C12_GreaseFilter == [][C12_Step]_vars

(***************************************************************************)
(* The certificate accessors of a connection: sessions, actions,           *)
(* specification.  The session holds one reference of the certificate it   *)
(* presents as the peer's and one of the certificate it stashed, which may *)
(* be the same object.  The caller keeps every handle it is given and      *)
(* releases it once, at any later time.                                    *)
(***************************************************************************)
MaxChain == 3     \* verified chains of 0..MaxChain certificates
MaxHeld == 2      \* handles of one certificate the caller holds at a time

SessionRefs(peer, stash, c) ==
    (IF peer = c THEN 1 ELSE 0) + (IF stash = c THEN 1 ELSE 0)

ChainsOfLen(n) ==
    {[exists |-> TRUE, certs |-> [i \in 1..n |-> [self_issued |-> f[i]]]] :
        f \in [1..n -> BOOLEAN]}
Chains == {NoChain} \cup UNION {ChainsOfLen(n) : n \in 0..MaxChain}

Sessions ==
    {[peer |-> p, stash |-> st, chain |-> ch,
      refs |-> [c \in 1..MaxCerts |-> SessionRefs(p, st, c)],
      held |-> [c \in 1..MaxCerts |-> 0]] :
        p \in 0..MaxCerts, st \in 0..MaxCerts, ch \in Chains}

InitSsl ==
    /\ out = Buffer(0, 0)
    /\ oob = FALSE
    /\ call = [op |-> "none", arg |-> <<>>, ret |-> 0]
    /\ crt = DefaultCert
    /\ d = NoD
    /\ version = NoVersion
    /\ ssl \in Sessions
    /\ x509_v_codes = X509VCodes({})
    /\ curves_list = CurvesList({})
    /\ initcalls = NoInitcalls

\* The caller calls ssl_sock_get_peer_certificate and keeps the handle.
GetPeerCertificate ==
    LET r == ssl_sock_get_peer_certificate(ssl)
    IN  /\ r.ret # 0 => ssl.held[r.ret] < MaxHeld
        /\ ssl' = IF r.ret = 0 THEN r.ssl
                  ELSE [r.ssl EXCEPT !.held[r.ret] = @ + 1]
        /\ call' = [op |-> "ssl_sock_get_peer_certificate", arg |-> r.trace,
                    ret |-> r.ret]
        /\ UNCHANGED <<out, oob, crt, d, version, x509_v_codes, curves_list, initcalls>>

\* The caller releases one of the handles it holds.
ReleaseCertificate ==
    \E c \in 1..MaxCerts :
        /\ ssl.held[c] > 0
        /\ ssl' = [X509_free(ssl, c) EXCEPT !.held[c] = @ - 1]
        /\ call' = [op |-> "X509_free", arg |-> <<c>>, ret |-> 0]
        /\ UNCHANGED <<out, oob, crt, d, version, x509_v_codes, curves_list, initcalls>>

GetVerifiedChainRoot ==
    /\ call' = [op |-> "ssl_sock_get_verified_chain_root", arg |-> <<>>,
                ret |-> ssl_sock_get_verified_chain_root(ssl)]
    /\ UNCHANGED <<out, oob, crt, d, version, ssl, x509_v_codes, curves_list, initcalls>>

NextSsl == GetPeerCertificate \/ ReleaseCertificate \/ GetVerifiedChainRoot
SpecSsl == InitSsl /\ [][NextSsl]_vars

(***************************************************************************)
(* Properties of ssl_sock_get_peer_certificate.                            *)
(***************************************************************************)
InTrace(name) == \E i \in 1..Len(call'.arg) : call'.arg[i] = name

C13_Step ==
    call'.op = "ssl_sock_get_peer_certificate" =>
        /\ InTrace("SSL_get_ex_data") => ssl.peer = 0
        /\ ssl.peer # 0 =>
              /\ call'.ret = ssl.peer
              /\ ~InTrace("X509_up_ref")
              /\ (ssl.stash # 0 /\ ssl.stash # ssl.peer) =>
                     ssl'.refs[ssl.stash] = ssl.refs[ssl.stash]
        /\ (ssl.peer = 0 /\ ssl.stash # 0) =>
              /\ call'.ret = ssl.stash
              /\ ssl'.refs[ssl.stash] = ssl.refs[ssl.stash] + 1
              /\ \A c \in 1..MaxCerts : c # ssl.stash => ssl'.refs[c] = ssl.refs[c]
        /\ (ssl.peer = 0 /\ ssl.stash = 0) =>
              /\ call'.ret = 0
              /\ ssl'.refs = ssl.refs
        /\ ssl'.peer = ssl.peer /\ ssl'.stash = ssl.stash

\* Each handle the caller holds is one reference of its own.
C13_OwnedReferences ==
    \A c \in 1..MaxCerts :
        ssl.refs[c] = SessionRefs(ssl.peer, ssl.stash, c) + ssl.held[c]

\* C13: over any sequence of calls of ssl_sock_get_peer_certificate and
\* later releases, the stash is consulted only when
\* SSL_get_peer_certificate yields NULL; a certificate found there is
\* returned with its count incremented by exactly one; a certificate of the
\* primary accessor is returned as is, without X509_up_ref and without a
\* change of the stashed certificate's count; when both yield nothing the
\* result is NULL and no count changes.  Every handle returned carries one
\* reference of the caller's, and releasing each once never takes the
\* session's own reference.
C13_PeerCertificateOwnership == []C13_OwnedReferences /\ [][C13_Step]_vars

C13_Witness ==
    /\ call.op = "ssl_sock_get_peer_certificate"
    /\ ssl.peer = 0
    /\ ssl.stash = 2
    /\ call.ret = 2
    /\ ssl.held[2] = 2
    /\ ssl.refs[2] = 3

(***************************************************************************)
(* Properties of ssl_sock_get_verified_chain_root.                         *)
(***************************************************************************)
SelfIssued(ch) == {i \in 1..Len(ch.certs) : ch.certs[i].self_issued}

\* C16: ssl_sock_get_verified_chain_root returns the lowest-index entry of
\* the verified chain that is self-issued, never a certificate that is not
\* self-issued, and NULL when the chain is unavailable or empty.
C16_ChainRoot ==
    call.op = "ssl_sock_get_verified_chain_root" =>
        /\ (ssl.chain.exists /\ SelfIssued(ssl.chain) # {}) =>
              /\ call.ret \in SelfIssued(ssl.chain)
              /\ \A i \in SelfIssued(ssl.chain) : call.ret <= i
        /\ call.ret # 0 => ssl.chain.certs[call.ret].self_issued
        /\ (~ssl.chain.exists \/ Len(ssl.chain.certs) = 0) => call.ret = 0

\* C16, as the code has it: the lowest-index self-issued entry when the
\* chain has one; the last entry of the chain, which is then not
\* self-issued, when it has none; NULL when the chain is unavailable or
\* empty.
C16_ChainRootOrLast ==
    call.op = "ssl_sock_get_verified_chain_root" =>
        /\ (ssl.chain.exists /\ SelfIssued(ssl.chain) # {}) =>
              /\ call.ret \in SelfIssued(ssl.chain)
              /\ \A i \in SelfIssued(ssl.chain) : call.ret <= i
        /\ (ssl.chain.exists /\ SelfIssued(ssl.chain) = {}) =>
              call.ret = Len(ssl.chain.certs)
        /\ (~ssl.chain.exists \/ Len(ssl.chain.certs) = 0) => call.ret = 0

C16_Witness ==
    /\ call.op = "ssl_sock_get_verified_chain_root"
    /\ ssl.chain.exists
    /\ Len(ssl.chain.certs) = 3
    /\ SelfIssued(ssl.chain) = {2, 3}
    /\ call.ret = 2

(***************************************************************************)
(* The verification-error table: builds, actions, specification.  A build  *)
(* defines any subset of the macros.  init_x509_v_err_tab is an INITCALL;  *)
(* it is run up to MaxInits times.                                         *)
(***************************************************************************)
MaxInits == 2

X509Builds == {X509VCodes(defined) : defined \in SUBSET (1..Len(X509VMacros))}
\* the names of the table, "X509_V_ERR_NOT_A_CODE", "x509_v_ok", ""
X509Names ==
    {X509VMacros[i].name : i \in 1..Len(X509VMacros)}
    \cup { <<88, 53, 48, 57, 95, 86, 95, 69, 82, 82, 95, 78, 79, 84, 95, 65, 95, 67, 79, 68, 69>>,
           <<120, 53, 48, 57, 95, 118, 95, 111, 107>>, <<>> }
X509Codes == {-1, 0, 1, 7, 10, 94}

InitX509 ==
    /\ out = Buffer(0, 0)
    /\ oob = FALSE
    /\ call = [op |-> "none", arg |-> <<>>, ret |-> 0]
    /\ crt = DefaultCert
    /\ d = NoD
    /\ version = NoVersion
    /\ ssl = NoSsl
    /\ x509_v_codes \in X509Builds
    /\ curves_list = CurvesList({})
    /\ initcalls = NoInitcalls

InitX509VErrTab ==
    /\ initcalls.x509 < MaxInits
    /\ x509_v_codes' = init_x509_v_err_tab(x509_v_codes)
    /\ initcalls' = [initcalls EXCEPT !.x509 = @ + 1]
    /\ call' = [op |-> "init_x509_v_err_tab", arg |-> <<>>, ret |-> 0]
    /\ UNCHANGED <<out, oob, crt, d, version, ssl, curves_list>>

X509VErrStrToInt ==
    \E str \in X509Names :
        /\ call' = [op |-> "x509_v_err_str_to_int", arg |-> str,
                    ret |-> x509_v_err_str_to_int(x509_v_codes, str)]
        /\ UNCHANGED <<out, oob, crt, d, version, ssl, x509_v_codes, curves_list, initcalls>>

X509VErrIntToStr ==
    \E code \in X509Codes :
        /\ call' = [op |-> "x509_v_err_int_to_str", arg |-> code,
                    ret |-> x509_v_err_int_to_str(x509_v_codes, code)]
        /\ UNCHANGED <<out, oob, crt, d, version, ssl, x509_v_codes, curves_list, initcalls>>

NextX509 == InitX509VErrTab \/ X509VErrStrToInt \/ X509VErrIntToStr
SpecX509 == InitX509 /\ [][NextX509]_vars

(***************************************************************************)
(* Properties of the verification-error table.                             *)
(***************************************************************************)
IsNumber(text) == Len(text) >= 1 /\ \A i \in 1..Len(text) : IsDigit(text[i])
InX509Table(str) == \E i \in 1..Len(x509_v_codes) : x509_v_codes[i].string = str

C14_Table ==
    initcalls.x509 >= 1 =>
        /\ \A i \in 1..Len(x509_v_codes) :
              LET e == x509_v_codes[i]
              IN  /\ e.code # -1 =>
                        x509_v_err_int_to_str(x509_v_codes,
                            x509_v_err_str_to_int(x509_v_codes, e.string)) = Str(e.string)
                  /\ IsNumber(e.value) =>
                        /\ e.code = Decimal2Nat(e.value, 1, Len(e.value))
                        /\ x509_v_err_str_to_int(x509_v_codes, e.string) = e.code
                  /\ e.value = e.string =>
                        x509_v_err_str_to_int(x509_v_codes, e.string) = -1
        /\ \A str \in X509Names :
              ~InX509Table(str) => x509_v_err_str_to_int(x509_v_codes, str) = -1
        /\ x509_v_err_int_to_str(x509_v_codes, -1) = NullStr
        /\ call.op = "x509_v_err_str_to_int" =>
              call.ret = x509_v_err_str_to_int(x509_v_codes, call.arg)
        /\ call.op = "x509_v_err_int_to_str" =>
              /\ call.ret = x509_v_err_int_to_str(x509_v_codes, call.arg)
              /\ call.arg = -1 => call.ret = NullStr

C14_Step ==
    /\ call'.op \in {"x509_v_err_str_to_int", "x509_v_err_int_to_str"} =>
          x509_v_codes' = x509_v_codes
    /\ (call'.op = "init_x509_v_err_tab" /\ initcalls.x509 >= 1) =>
          x509_v_codes' = x509_v_codes

\* C14: after init_x509_v_err_tab has run, once or several times, every
\* entry with a resolved code maps name -> code -> name to its own name;
\* the name of an entry whose macro the build does not define maps to -1,
\* as does a name that is not in the table; x509_v_err_int_to_str(-1) is
\* NULL however many entries carry -1; the lookups never modify the table.
C14_X509RoundTrip == []C14_Table /\ [][C14_Step]_vars

C14_Witness ==
    /\ initcalls.x509 = 2
    /\ call.op = "x509_v_err_int_to_str"
    /\ call.arg = 10
    /\ call.ret = Str(X509VMacros[3].name)
    /\ x509_v_codes[1].code = -1
    /\ x509_v_codes[4].code = -1

(***************************************************************************)
(* The curve table: builds, actions, specification.                        *)
(***************************************************************************)
\* The last line of CurveMacros has -1 for a macro in every build.
CurveBuilds == {CurvesList(defined \cup {5}) : defined \in SUBSET (1..4)}
\* the names and aliases of the table, "P-384", "SECP256R1", ""
CurveNames ==
    {CurveMacros[i].name : i \in 1..Len(CurveMacros)}
    \cup {CurveMacros[i].nist.str : i \in {k \in 1..Len(CurveMacros) : CurveMacros[k].nist.exists}}
    \cup { <<80, 45, 51, 56, 52>>, <<83, 69, 67, 80, 50, 53, 54, 82, 49>>, <<>> }
CurveIds == {0, 19, 22, 23, 24, 31, 25497, 415}

InitCurves ==
    /\ out = Buffer(0, 0)
    /\ oob = FALSE
    /\ call = [op |-> "none", arg |-> <<>>, ret |-> 0]
    /\ crt = DefaultCert
    /\ d = NoD
    /\ version = NoVersion
    /\ ssl = NoSsl
    /\ x509_v_codes = X509VCodes({})
    /\ curves_list \in CurveBuilds
    /\ initcalls = NoInitcalls

InitCurvesTab ==
    /\ initcalls.curves < MaxInits
    /\ curves_list' = init_curves_tab(curves_list)
    /\ initcalls' = [initcalls EXCEPT !.curves = @ + 1]
    /\ call' = [op |-> "init_curves_tab", arg |-> <<>>, ret |-> 0]
    /\ UNCHANGED <<out, oob, crt, d, version, ssl, x509_v_codes>>

Curveid2str ==
    \E curve_id \in CurveIds :
        /\ call' = [op |-> "curveid2str", arg |-> curve_id,
                    ret |-> curveid2str(curves_list, curve_id)]
        /\ UNCHANGED <<out, oob, crt, d, version, ssl, x509_v_codes, curves_list, initcalls>>

Curves2nid ==
    \E curve \in CurveNames :
        /\ call' = [op |-> "curves2nid", arg |-> curve,
                    ret |-> curves2nid(curves_list, curve)]
        /\ UNCHANGED <<out, oob, crt, d, version, ssl, x509_v_codes, curves_list, initcalls>>

NextCurves == InitCurvesTab \/ Curveid2str \/ Curves2nid
SpecCurves == InitCurves /\ [][NextCurves]_vars

(***************************************************************************)
(* Properties of the curve table.                                          *)
(***************************************************************************)
InCurveNames(curve) ==
    \E i \in 1..Len(curves_list) :
        \/ curves_list[i].name = curve
        \/ (curves_list[i].nist.exists /\ curves_list[i].nist.str = curve)
InCurveIds(curve_id) ==
    \E i \in 1..Len(curves_list) : curves_list[i].curve_id = curve_id

\* C15: after init_curves_tab, for every entry curveid2str(curve_id) is the
\* entry's SECG name and curves2nid(name) its nid; curves2nid of a NIST
\* alias is curves2nid of the name, e.g. curveid2str(23) = "secp256r1" and
\* curves2nid("P-256") = curves2nid("secp256r1"); an identifier or a name
\* that is not in the table gives NULL or -1; an entry whose macro the
\* build does not define keeps nid -1 and the other entries get their
\* values.
C15_CurveAliases ==
    initcalls.curves >= 1 =>
        /\ \A i \in 1..Len(curves_list) :
              LET e == curves_list[i]
              IN  /\ curveid2str(curves_list, e.curve_id) = Str(e.name)
                  /\ curves2nid(curves_list, e.name) = e.nid
                  /\ e.nist.exists =>
                        curves2nid(curves_list, e.nist.str) = curves2nid(curves_list, e.name)
                  /\ IF IsNumber(e.nid_val_str)
                     THEN e.nid = Decimal2Nat(e.nid_val_str, 1, Len(e.nid_val_str))
                     ELSE e.nid = -1
        /\ curveid2str(curves_list, 23) = Str(<<115, 101, 99, 112, 50, 53, 54, 114, 49>>)
        /\ curves2nid(curves_list, <<80, 45, 50, 53, 54>>)
              = curves2nid(curves_list, <<115, 101, 99, 112, 50, 53, 54, 114, 49>>)
        /\ \A curve_id \in CurveIds :
              ~InCurveIds(curve_id) => curveid2str(curves_list, curve_id) = NullStr
        /\ \A curve \in CurveNames :
              ~InCurveNames(curve) => curves2nid(curves_list, curve) = -1
        /\ call.op = "curveid2str" => call.ret = curveid2str(curves_list, call.arg)
        /\ call.op = "curves2nid" => call.ret = curves2nid(curves_list, call.arg)

C15_Witness ==
    /\ initcalls.curves >= 1
    /\ call.op = "curves2nid"
    /\ call.arg = <<80, 45, 50, 53, 54>>
    /\ call.ret = 415
    /\ curves_list[1].nid = -1
    /\ curves_list[4].nid = -1

====
